---- MODULE Spec2Model ----
(***************************************************************************)
(* Model of scripts/cloudformation_converter.py: three converters from     *)
(* exported AWS descriptions to CloudFormation resource entries, the JSON  *)
(* loader, and main, which loads, converts, merges and writes the          *)
(* template.                                                               *)
(*                                                                         *)
(* Representation.                                                         *)
(*  - A Python str that the code takes apart or concatenates (identifiers, *)
(*    names, resource keys, tag values) is a sequence of one-character     *)
(*    strings. A str the code only copies (CIDR blocks, protocols,         *)
(*    descriptions, image ids) is a TLA+ string.                           *)
(*  - An input dict (a parsed JSON object) is a function whose DOMAIN is   *)
(*    the set of keys present; {} is <<>>.                                 *)
(*  - A resources dict, whose keys are computed, is a sequence of          *)
(*    [key, val] pairs with pairwise distinct keys, in insertion order     *)
(*    (Python dicts keep insertion order; assigning to a key that exists   *)
(*    replaces the value in place).                                        *)
(*  - Inputs are JSON objects of the exported shape: lists where the code  *)
(*    iterates, objects where it calls .get, strings where it calls        *)
(*    .replace.                                                            *)
(*  - The export directory, when it exists, can be written to.             *)
(***************************************************************************)
EXTENDS Integers, Sequences, FiniteSets, TLC

VARIABLES
    pc,           \* position in the function being run
    resources,    \* a converter's local `resources`
    i,            \* a converter's outer loop index (0-based, as enumerate's)
    j,            \* convert_ec2_to_cf's inner loop index (0-based)
    argv_len,     \* len(sys.argv)
    export_dir,   \* what sys.argv[1] names: "missing", "dir" or "file"
    files,        \* the three input files of export_dir
    vpcs_data,    \* main's vpcs_data / convert_vpc_to_cf's parameter
    sg_data,      \* main's sg_data / convert_security_groups_to_cf's parameter
    ec2_data,     \* main's ec2_data / convert_ec2_to_cf's parameter
    cf_template,  \* cf_template["Resources"]
    output_file,  \* the documents written to cloudformation-template.json
    loaded,       \* the files load_json_file has been called on, in order
    diag,         \* the diagnostics load_json_file printed, in order
    exc,          \* the exception that ended the run ("none" while there is none)
    exit_code     \* the process's exit status once pc = "exit"

vars == <<pc, resources, i, j, argv_len, export_dir, files, vpcs_data, sg_data,
          ec2_data, cf_template, output_file, loaded, diag, exc, exit_code>>

\* What a converter never touches.
callVars == <<argv_len, export_dir, files, cf_template, output_file, loaded, diag,
              exc, exit_code>>

-----------------------------------------------------------------------------
(* Bounds of the explored inputs. *)

\* Longest native identifier (VpcId, GroupId, InstanceId) in characters.
MaxIdLen == 1
\* Most records in a Vpcs or SecurityGroups list given to one converter.
MaxRecs == 2
\* Most permission rules of the security group whose rules are flattened.
MaxRules == 2
\* Most address ranges attached to one permission rule.
MaxRanges == 2
\* Most reservations in a compute export, and most instances in one.
MaxNest == 2
\* Most records over the three input files of one run of main.
MaxTotal == 2

-----------------------------------------------------------------------------
(* String literals of the source. *)

S_VPC == <<"V", "P", "C">>
S_SecurityGroup ==
    <<"S", "e", "c", "u", "r", "i", "t", "y", "G", "r", "o", "u", "p">>
S_EC2Instance == <<"E", "C", "2", "I", "n", "s", "t", "a", "n", "c", "e">>
S_Imported == <<"I", "m", "p", "o", "r", "t", "e", "d", "-">>
S_default == <<"d", "e", "f", "a", "u", "l", "t">>
S_empty == <<>>

(* Python built-ins the code uses. *)

NotHyphen(c) == c # "-"

\* s.replace('-', '')
RemoveHyphens(s) == SelectSeq(s, NotHyphen)

DigitChar(d) ==
    CASE d = 0 -> "0" [] d = 1 -> "1" [] d = 2 -> "2" [] d = 3 -> "3"
      [] d = 4 -> "4" [] d = 5 -> "5" [] d = 6 -> "6" [] d = 7 -> "7"
      [] d = 8 -> "8" [] d = 9 -> "9"

\* The decimal digits of n >= 0, as the f-string formats an int.
RECURSIVE IntToStr(_)
IntToStr(n) ==
    IF n < 10 THEN <<DigitChar(n)>>
    ELSE IntToStr(n \div 10) \o <<DigitChar(n % 10)>>

\* d.get(k, default)
Get(d, k, default) == IF k \in DOMAIN d THEN d[k] ELSE default

EmptyDict == <<>>

DictKeys(d) == {d[n].key : n \in DOMAIN d}
DictHas(d, k) == \E n \in DOMAIN d : d[n].key = k
DictLookup(d, k) == d[CHOOSE n \in DOMAIN d : d[n].key = k].val

\* d[k] = v
DictSetKeepingFirst(d, k, v) ==
    IF DictHas(d, k) THEN d ELSE Append(d, [key |-> k, val |-> v])
DictSet(d, k, v) ==
    IF DictHas(d, k)
    THEN [n \in DOMAIN d |-> IF d[n].key = k THEN [key |-> k, val |-> v] ELSE d[n]]
    ELSE Append(d, [key |-> k, val |-> v])

\* d.update(e)
RECURSIVE DictUpdate(_, _)
DictUpdate(d, e) ==
    IF e = <<>> THEN d
    ELSE DictUpdate(DictSet(d, Head(e).key, Head(e).val), Tail(e))

NameTag(value) == <<[Key |-> "Name", Value |-> value]>>

-----------------------------------------------------------------------------
(* convert_vpc_to_cf *)

\* vpc.get('VpcId', f'VPC{i}')
VpcIdOf(vpc, n) == Get(vpc, "VpcId", S_VPC \o IntToStr(n))

\* f"VPC{vpc_id.replace('-', '')}"
VpcResourceNameUnstripped(vpc_id) == S_VPC \o vpc_id
VpcResourceName(vpc_id) == S_VPC \o RemoveHyphens(vpc_id)

VpcEntry(vpc, vpc_id) ==
    [Type |-> "AWS::EC2::VPC",
     Properties |->
        [CidrBlock |-> Get(vpc, "CidrBlock", "10.0.0.0/16"),
         EnableDnsHostnames |-> TRUE,
         EnableDnsSupport |-> TRUE,
         Tags |-> NameTag(S_Imported \o vpc_id)]]

\* One iteration of the loop over enumerate(vpcs_data['Vpcs']).
VpcBodyKeepingFirst(res, n, vpc) ==
    DictSetKeepingFirst(res, VpcResourceName(VpcIdOf(vpc, n)),
                        VpcEntry(vpc, VpcIdOf(vpc, n)))
VpcBody(res, n, vpc) ==
    DictSet(res, VpcResourceName(VpcIdOf(vpc, n)), VpcEntry(vpc, VpcIdOf(vpc, n)))

RECURSIVE VpcLoopFrom(_, _, _)
VpcLoopFrom(res, n, vpcs) ==
    IF n >= Len(vpcs) THEN res
    ELSE VpcLoopFrom(VpcBody(res, n, vpcs[n + 1]), n + 1, vpcs)

convert_vpc_to_cf(d) ==
    IF "Vpcs" \in DOMAIN d THEN VpcLoopFrom(EmptyDict, 0, d.Vpcs) ELSE EmptyDict

-----------------------------------------------------------------------------
(* convert_security_groups_to_cf *)

\* sg.get('GroupName') == 'default'
IsDefaultGroupNever(sg) == FALSE
IsDefaultGroup(sg) == "GroupName" \in DOMAIN sg /\ sg.GroupName = S_default

\* sg.get('GroupId', '')
SgIdOf(sg) == Get(sg, "GroupId", S_empty)

\* f"SecurityGroup{sg_id.replace('-', '')}"
SgResourceNameAsVpc(sg_id) == S_VPC \o RemoveHyphens(sg_id)
SgResourceName(sg_id) == S_SecurityGroup \o RemoveHyphens(sg_id)

CfRule(rule) ==
    [IpProtocol |-> Get(rule, "IpProtocol", "tcp"),
     FromPort |-> Get(rule, "FromPort", 80),
     ToPort |-> Get(rule, "ToPort", 80)]

\* cf_rule.copy() with 'CidrIp' set
CfRuleCopy(cf_rule, ip_range) ==
    [IpProtocol |-> cf_rule.IpProtocol,
     FromPort |-> cf_rule.FromPort,
     ToPort |-> cf_rule.ToPort,
     CidrIp |-> Get(ip_range, "CidrIp", "0.0.0.0/0")]

\* The loop over rule.get('IpRanges', []): one entry appended per range.
RuleEntriesDefaultingEmpty(rule) ==
    LET ranges == Get(rule, "IpRanges", <<>>)
    IN  IF ranges = <<>> THEN <<CfRuleCopy(CfRule(rule), <<>>)>>
        ELSE [n \in DOMAIN ranges |-> CfRuleCopy(CfRule(rule), ranges[n])]
RuleEntries(rule) ==
    LET ranges == Get(rule, "IpRanges", <<>>)
    IN  [n \in DOMAIN ranges |-> CfRuleCopy(CfRule(rule), ranges[n])]

\* The loop over sg.get('IpPermissions', []), building ingress_rules.
RECURSIVE IngressLoop(_, _)
IngressLoop(ingress_rules, rules) ==
    IF rules = <<>> THEN ingress_rules
    ELSE IngressLoop(ingress_rules \o RuleEntries(Head(rules)), Tail(rules))

IngressRules(sg) == IngressLoop(<<>>, Get(sg, "IpPermissions", <<>>))

SgEntry(sg, sg_id) ==
    [Type |-> "AWS::EC2::SecurityGroup",
     Properties |->
        [GroupDescription |-> Get(sg, "Description", "Imported security group"),
         SecurityGroupIngress |-> IngressRules(sg),
         Tags |-> NameTag(S_Imported \o Get(sg, "GroupName", sg_id))]]

\* One iteration of the loop over sg_data['SecurityGroups'].
SgBody(res, sg) ==
    IF IsDefaultGroup(sg) THEN res
    ELSE DictSet(res, SgResourceName(SgIdOf(sg)), SgEntry(sg, SgIdOf(sg)))

RECURSIVE SgLoopFrom(_, _, _)
SgLoopFrom(res, n, sgs) ==
    IF n >= Len(sgs) THEN res
    ELSE SgLoopFrom(SgBody(res, sgs[n + 1]), n + 1, sgs)

convert_security_groups_to_cf(d) ==
    IF "SecurityGroups" \in DOMAIN d
    THEN SgLoopFrom(EmptyDict, 0, d.SecurityGroups)
    ELSE EmptyDict

-----------------------------------------------------------------------------
(* convert_ec2_to_cf *)

\* instance.get('InstanceId', '')
InstanceIdOf(instance) == Get(instance, "InstanceId", S_empty)

\* f"EC2Instance{instance_id.replace('-', '')}"
Ec2ResourceName(instance_id) == S_EC2Instance \o RemoveHyphens(instance_id)

\* [sg['GroupId'] for sg in instance.get('SecurityGroups', [])]
SecurityGroupIds(instance) ==
    LET refs == Get(instance, "SecurityGroups", <<>>)
    IN  [n \in DOMAIN refs |-> refs[n].GroupId]

Ec2Entry(instance, instance_id) ==
    [Type |-> "AWS::EC2::Instance",
     Properties |->
        [ImageId |-> Get(instance, "ImageId", "ami-0abcdef1234567890"),
         InstanceType |-> Get(instance, "InstanceType", "t2.micro"),
         KeyName |-> Get(instance, "KeyName", ""),
         SecurityGroupIds |-> SecurityGroupIds(instance),
         SubnetId |-> Get(instance, "SubnetId", ""),
         Tags |-> NameTag(S_Imported \o instance_id)]]

\* The body of the inner loop over reservation.get('Instances', []).
Ec2Body(res, instance) ==
    DictSet(res, Ec2ResourceName(InstanceIdOf(instance)),
            Ec2Entry(instance, InstanceIdOf(instance)))

\* reservation.get('Instances', [])
InstancesOfFirstOnly(reservation) ==
    LET l == Get(reservation, "Instances", <<>>)
    IN  IF l = <<>> THEN l ELSE <<l[1]>>
InstancesOf(reservation) == Get(reservation, "Instances", <<>>)

RECURSIVE InstLoopFrom(_, _, _)
InstLoopFrom(res, n, instances) ==
    IF n >= Len(instances) THEN res
    ELSE InstLoopFrom(Ec2Body(res, instances[n + 1]), n + 1, instances)

RECURSIVE ResLoopFrom(_, _, _)
ResLoopFrom(res, n, reservations) ==
    IF n >= Len(reservations) THEN res
    ELSE ResLoopFrom(InstLoopFrom(res, 0, InstancesOf(reservations[n + 1])),
                     n + 1, reservations)

convert_ec2_to_cf(d) ==
    IF "Reservations" \in DOMAIN d
    THEN ResLoopFrom(EmptyDict, 0, d.Reservations)
    ELSE EmptyDict

-----------------------------------------------------------------------------
(* load_json_file *)

\* What the call does: return `value` after printing `printed`, or let the
\* exception `raises` escape.
Returned(value, printed) ==
    [raised |-> FALSE, raises |-> "none", value |-> value, printed |-> printed]
Raised(e) == [raised |-> TRUE, raises |-> e, value |-> <<>>, printed |-> "none"]

\* dir is what the directory part of file_path names, file the state of the
\* file itself. open() raises FileNotFoundError for a missing file or
\* directory and NotADirectoryError when the directory part is a regular
\* file; json.load reads the text, which raises UnicodeDecodeError for bytes
\* that are no text, and then parses it, which raises JSONDecodeError. The
\* function catches FileNotFoundError and JSONDecodeError only.
load_json_file(dir, file) ==
    CASE dir = "file" -> Raised("NotADirectoryError")
      [] dir = "missing" -> Returned(<<>>, "Warning")
      [] dir = "dir" /\ file.kind = "absent" -> Returned(<<>>, "Warning")
      [] dir = "dir" /\ file.kind = "undecodable" -> Raised("UnicodeDecodeError")
      [] dir = "dir" /\ file.kind = "malformed" -> Returned(<<>>, "Error")
      [] dir = "dir" /\ file.kind = "json" -> Returned(file.value, "none")

-----------------------------------------------------------------------------
(* Inputs. *)

IdChars == {"a", "-"}
IdsUpTo(n) == UNION {[1..k -> IdChars] : k \in 0..n}
ListsUpTo(S, n) == UNION {[1..k -> S] : k \in 0..n}

VpcRecordsOver(ids) ==
    {[VpcId |-> v, CidrBlock |-> c] : v \in ids, c \in {"192.168.0.0/16"}}
    \cup {[VpcId |-> v] : v \in ids}
    \cup {[CidrBlock |-> c] : c \in {"192.168.0.0/16"}}
    \cup {<<>>}

\* vpcs_data: no Vpcs key, or a list of at most MaxRecs records.
IsVpcInput(d) ==
    \/ d = <<>>
    \/ \E k \in 0..MaxRecs : \E l \in [1..k -> VpcRecordsOver(IdsUpTo(MaxIdLen))] :
          d = [Vpcs |-> l]

S_web == <<"w", "e", "b">>

OneRule == [IpProtocol |-> "tcp", FromPort |-> 22, ToPort |-> 22,
            IpRanges |-> <<[CidrIp |-> "10.0.0.0/8"]>>]

SgRecordsOver(ids) ==
    LET names == {S_default, S_web}
        perms == {<<OneRule>>}
    IN  {[GroupName |-> g, GroupId |-> v, IpPermissions |-> q] :
            g \in names, v \in ids, q \in perms}
        \cup {[GroupName |-> g, GroupId |-> v] : g \in names, v \in ids}
        \cup {[GroupName |-> g, IpPermissions |-> q] : g \in names, q \in perms}
        \cup {[GroupId |-> v, IpPermissions |-> q] : v \in ids, q \in perms}
        \cup {[GroupName |-> g] : g \in names}
        \cup {[GroupId |-> v] : v \in ids}
        \cup {[IpPermissions |-> q] : q \in perms}
        \cup {<<>>}

\* sg_data: no SecurityGroups key, or a list of at most MaxRecs records.
IsSgInput(d) ==
    \/ d = <<>>
    \/ \E k \in 0..MaxRecs : \E l \in [1..k -> SgRecordsOver(IdsUpTo(MaxIdLen))] :
          d = [SecurityGroups |-> l]

\* Permission rules: three protocol/port headers, each without IpRanges or
\* with a list of ranges that name a CidrIp or not.
RuleHeaders ==
    {<<>>,
     [IpProtocol |-> "tcp", FromPort |-> 22, ToPort |-> 22],
     [IpProtocol |-> "udp", ToPort |-> 53]}

RangeKinds == {<<>>, [CidrIp |-> "10.0.0.0/8"]}

WithRanges(h, l) ==
    [k \in DOMAIN h \cup {"IpRanges"} |-> IF k = "IpRanges" THEN l ELSE h[k]]

RulePool ==
    RuleHeaders
    \cup {WithRanges(h, l) : h \in RuleHeaders, l \in ListsUpTo(RangeKinds, MaxRanges)}

\* sg_data: one group that is kept, without IpPermissions or with a list of
\* at most MaxRules rules.
IsSgRuleInput(d) ==
    \/ d = [SecurityGroups |-> <<[GroupId |-> <<"a">>]>>]
    \/ \E k \in 0..MaxRules : \E q \in [1..k -> RulePool] :
          d = [SecurityGroups |-> <<[GroupId |-> <<"a">>, GroupName |-> S_web,
                                     IpPermissions |-> q]>>]

\* Instance records: an identifier alone, nothing at all, or every field.
FullInstance(v) ==
    [InstanceId |-> v, ImageId |-> "ami-1", InstanceType |-> "m5.large",
     KeyName |-> "key", SecurityGroups |-> <<[GroupId |-> <<"s", "g">>]>>,
     SubnetId |-> "subnet-1"]

InstancesOver(ids) ==
    {[InstanceId |-> v] : v \in ids} \cup {<<>>, FullInstance(<<"a", "-", "a">>)}

\* The shape of a Reservations list: per reservation the length of its
\* Instances list, or -1 for a reservation without one.
RECURSIVE SumShape(_)
SumShape(shape) ==
    IF shape = <<>> THEN 0
    ELSE (IF Head(shape) > 0 THEN Head(shape) ELSE 0) + SumShape(Tail(shape))

ShapesUpTo(n) ==
    {sh \in UNION {[1..k -> -1..n] : k \in 0..n} : SumShape(sh) <= n}

RECURSIVE BuildReservations(_, _)
BuildReservations(shape, flat) ==
    IF shape = <<>> THEN <<>>
    ELSE LET c == Head(shape)
             m == IF c > 0 THEN c ELSE 0
             r == IF c < 0 THEN <<>> ELSE [Instances |-> SubSeq(flat, 1, m)]
         IN  <<r>> \o BuildReservations(Tail(shape), SubSeq(flat, m + 1, Len(flat)))

\* ec2_data: no Reservations key, or at most MaxNest reservations holding at
\* most MaxNest instances between them.
IsEc2Input(d) ==
    \/ d = <<>>
    \/ \E sh \in ShapesUpTo(MaxNest) :
       \E flat \in [1..SumShape(sh) -> InstancesOver(IdsUpTo(MaxIdLen))] :
          d = [Reservations |-> BuildReservations(sh, flat)]

-----------------------------------------------------------------------------
(* A call of convert_vpc_to_cf, one loop iteration per step. *)

IdleCall ==
    /\ argv_len = 2 /\ export_dir = "dir" /\ files = <<>>
    /\ cf_template = EmptyDict /\ output_file = <<>> /\ loaded = <<>> /\ diag = <<>>
    /\ exc = "none" /\ exit_code = 0

InitVpc ==
    /\ pc = "vpc_call" /\ resources = EmptyDict /\ i = 0 /\ j = 0
    /\ IsVpcInput(vpcs_data) /\ sg_data = <<>> /\ ec2_data = <<>>
    /\ IdleCall

VpcCall ==
    /\ pc = "vpc_call"
    /\ resources' = EmptyDict
    /\ i' = 0
    /\ pc' = IF "Vpcs" \in DOMAIN vpcs_data THEN "vpc_loop" ELSE "return"
    /\ UNCHANGED <<j, vpcs_data, sg_data, ec2_data, callVars>>

VpcIter ==
    /\ pc = "vpc_loop"
    /\ i < Len(vpcs_data.Vpcs)
    /\ resources' = VpcBody(resources, i, vpcs_data.Vpcs[i + 1])
    /\ i' = i + 1
    /\ UNCHANGED <<pc, j, vpcs_data, sg_data, ec2_data, callVars>>

VpcReturn ==
    /\ pc = "vpc_loop"
    /\ i >= Len(vpcs_data.Vpcs)
    /\ pc' = "return"
    /\ UNCHANGED <<resources, i, j, vpcs_data, sg_data, ec2_data, callVars>>

NextVpc == VpcCall \/ VpcIter \/ VpcReturn

SpecVpc == InitVpc /\ [][NextVpc]_vars

-----------------------------------------------------------------------------
(* A call of convert_security_groups_to_cf, one loop iteration per step. *)

SgCall ==
    /\ pc = "sg_call"
    /\ resources' = EmptyDict
    /\ i' = 0
    /\ pc' = IF "SecurityGroups" \in DOMAIN sg_data THEN "sg_loop" ELSE "return"
    /\ UNCHANGED <<j, vpcs_data, sg_data, ec2_data, callVars>>

SgIter ==
    /\ pc = "sg_loop"
    /\ i < Len(sg_data.SecurityGroups)
    /\ resources' = SgBody(resources, sg_data.SecurityGroups[i + 1])
    /\ i' = i + 1
    /\ UNCHANGED <<pc, j, vpcs_data, sg_data, ec2_data, callVars>>

SgReturn ==
    /\ pc = "sg_loop"
    /\ i >= Len(sg_data.SecurityGroups)
    /\ pc' = "return"
    /\ UNCHANGED <<resources, i, j, vpcs_data, sg_data, ec2_data, callVars>>

NextSg == SgCall \/ SgIter \/ SgReturn

InitSg ==
    /\ pc = "sg_call" /\ resources = EmptyDict /\ i = 0 /\ j = 0
    /\ vpcs_data = <<>> /\ IsSgInput(sg_data) /\ ec2_data = <<>>
    /\ IdleCall

SpecSg == InitSg /\ [][NextSg]_vars

InitSgRules ==
    /\ pc = "sg_call" /\ resources = EmptyDict /\ i = 0 /\ j = 0
    /\ vpcs_data = <<>> /\ IsSgRuleInput(sg_data) /\ ec2_data = <<>>
    /\ IdleCall

SpecSgRules == InitSgRules /\ [][NextSg]_vars

-----------------------------------------------------------------------------
(* A call of convert_ec2_to_cf, one inner loop iteration per step. *)

Ec2Call ==
    /\ pc = "ec2_call"
    /\ resources' = EmptyDict
    /\ i' = 0
    /\ j' = 0
    /\ pc' = IF "Reservations" \in DOMAIN ec2_data THEN "ec2_loop" ELSE "return"
    /\ UNCHANGED <<vpcs_data, sg_data, ec2_data, callVars>>

Ec2Iter ==
    /\ pc = "ec2_loop"
    /\ i < Len(ec2_data.Reservations)
    /\ j < Len(InstancesOf(ec2_data.Reservations[i + 1]))
    /\ resources' = Ec2Body(resources, InstancesOf(ec2_data.Reservations[i + 1])[j + 1])
    /\ j' = j + 1
    /\ UNCHANGED <<pc, i, vpcs_data, sg_data, ec2_data, callVars>>

Ec2NextReservation ==
    /\ pc = "ec2_loop"
    /\ i < Len(ec2_data.Reservations)
    /\ j >= Len(InstancesOf(ec2_data.Reservations[i + 1]))
    /\ i' = i + 1
    /\ j' = 0
    /\ UNCHANGED <<pc, resources, vpcs_data, sg_data, ec2_data, callVars>>

Ec2Return ==
    /\ pc = "ec2_loop"
    /\ i >= Len(ec2_data.Reservations)
    /\ pc' = "return"
    /\ UNCHANGED <<resources, i, j, vpcs_data, sg_data, ec2_data, callVars>>

NextEc2 == Ec2Call \/ Ec2Iter \/ Ec2NextReservation \/ Ec2Return

InitEc2 ==
    /\ pc = "ec2_call" /\ resources = EmptyDict /\ i = 0 /\ j = 0
    /\ vpcs_data = <<>> /\ sg_data = <<>> /\ IsEc2Input(ec2_data)
    /\ IdleCall

SpecEc2 == InitEc2 /\ [][NextEc2]_vars

-----------------------------------------------------------------------------
(* main *)

Absent == [kind |-> "absent", value |-> <<>>]
Undecodable == [kind |-> "undecodable", value |-> <<>>]
Malformed == [kind |-> "malformed", value |-> <<>>]
Json(v) == [kind |-> "json", value |-> v]

\* A file that holds no record: absent, not text, not JSON, or an object
\* without the collection.
NoRecordFiles == {Absent, Undecodable, Malformed, Json(<<>>)}

MainIds == IdsUpTo(MaxIdLen)

\* The states of vpcs.json with n records.
VpcFiles(n) ==
    IF n = 0 THEN NoRecordFiles
    ELSE {Json([Vpcs |-> l]) :
            l \in [1..n -> {[VpcId |-> v] : v \in MainIds} \cup {<<>>}]}

\* The states of security-groups.json with n records.
SgFiles(n) ==
    IF n = 0 THEN NoRecordFiles
    ELSE {Json([SecurityGroups |-> l]) :
            l \in [1..n -> {[GroupId |-> v] : v \in MainIds}
                           \cup {<<>>, [GroupName |-> S_default, GroupId |-> <<"a">>]}]}

\* The states of ec2-instances.json with n instance records, all in one
\* reservation.
Ec2Files(n) ==
    IF n = 0 THEN NoRecordFiles \cup {Json([Reservations |-> <<>>])}
    ELSE {Json([Reservations |-> <<[Instances |-> l]>>]) :
            l \in [1..n -> {[InstanceId |-> v] : v \in MainIds} \cup {<<>>}]}

NoFiles == [vpcs |-> Absent, sg |-> Absent, ec2 |-> Absent]

InitMain ==
    /\ pc = "main" /\ resources = EmptyDict /\ i = 0 /\ j = 0
    /\ argv_len \in 1..3
    /\ export_dir \in IF argv_len = 1 THEN {"missing"} ELSE {"missing", "dir", "file"}
    /\ IF export_dir = "dir"
       THEN \E nv \in 0..MaxTotal : \E ns \in 0..(MaxTotal - nv) :
            \E ne \in 0..(MaxTotal - nv - ns) :
            \E fv \in VpcFiles(nv) : \E fs \in SgFiles(ns) : \E fe \in Ec2Files(ne) :
                files = [vpcs |-> fv, sg |-> fs, ec2 |-> fe]
       ELSE files = NoFiles
    /\ vpcs_data = <<>> /\ sg_data = <<>> /\ ec2_data = <<>>
    /\ cf_template = EmptyDict /\ output_file = <<>> /\ loaded = <<>> /\ diag = <<>>
    /\ exc = "none" /\ exit_code = 0

mainLocals == <<resources, i, j, argv_len, export_dir, files>>

\* sys.exit(1), or an exception no one catches: the interpreter exits with 1.
Exit1(e) == pc' = "exit" /\ exit_code' = 1 /\ exc' = e

\* if len(sys.argv) != 2: usage, sys.exit(1)
MainCheckArgs ==
    /\ pc = "main"
    /\ IF argv_len # 2 THEN Exit1("SystemExit")
       ELSE pc' = "check_dir" /\ UNCHANGED <<exit_code, exc>>
    /\ UNCHANGED <<mainLocals, vpcs_data, sg_data, ec2_data, cf_template,
                   output_file, loaded, diag>>

\* if not export_dir.exists(): error, sys.exit(1)
MainCheckDirNoExit ==
    /\ pc = "check_dir"
    /\ pc' = "load_vpcs"
    /\ UNCHANGED <<mainLocals, vpcs_data, sg_data, ec2_data, cf_template,
                   output_file, loaded, diag, exit_code, exc>>
MainCheckDir ==
    /\ pc = "check_dir"
    /\ IF export_dir = "missing" THEN Exit1("SystemExit")
       ELSE pc' = "load_vpcs" /\ UNCHANGED <<exit_code, exc>>
    /\ UNCHANGED <<mainLocals, vpcs_data, sg_data, ec2_data, cf_template,
                   output_file, loaded, diag>>

Printed(r) == IF r.printed = "none" THEN diag ELSE Append(diag, r.printed)

\* vpcs_data = load_json_file(export_dir / 'vpcs.json')
LoadVpcs ==
    /\ pc = "load_vpcs"
    /\ loaded' = Append(loaded, "vpcs")
    /\ LET r == load_json_file(export_dir, files.vpcs)
       IN  IF r.raised
           THEN Exit1(r.raises) /\ UNCHANGED <<vpcs_data, diag>>
           ELSE /\ vpcs_data' = r.value
                /\ diag' = Printed(r)
                /\ pc' = "load_sg"
                /\ UNCHANGED <<exit_code, exc>>
    /\ UNCHANGED <<mainLocals, sg_data, ec2_data, cf_template, output_file>>

\* sg_data = load_json_file(export_dir / 'security-groups.json')
LoadSg ==
    /\ pc = "load_sg"
    /\ loaded' = Append(loaded, "sg")
    /\ LET r == load_json_file(export_dir, files.sg)
       IN  IF r.raised
           THEN Exit1(r.raises) /\ UNCHANGED <<sg_data, diag>>
           ELSE /\ sg_data' = r.value
                /\ diag' = Printed(r)
                /\ pc' = "load_ec2"
                /\ UNCHANGED <<exit_code, exc>>
    /\ UNCHANGED <<mainLocals, vpcs_data, ec2_data, cf_template, output_file>>

\* ec2_data = load_json_file(export_dir / 'ec2-instances.json')
LoadEc2 ==
    /\ pc = "load_ec2"
    /\ loaded' = Append(loaded, "ec2")
    /\ LET r == load_json_file(export_dir, files.ec2)
       IN  IF r.raised
           THEN Exit1(r.raises) /\ UNCHANGED <<ec2_data, diag>>
           ELSE /\ ec2_data' = r.value
                /\ diag' = Printed(r)
                /\ pc' = "merge_vpc"
                /\ UNCHANGED <<exit_code, exc>>
    /\ UNCHANGED <<mainLocals, vpcs_data, sg_data, cf_template, output_file>>

\* cf_template = {..., "Resources": {}} and
\* cf_template["Resources"].update(convert_vpc_to_cf(vpcs_data))
MergeVpc ==
    /\ pc = "merge_vpc"
    /\ cf_template' = DictUpdate(EmptyDict, convert_vpc_to_cf(vpcs_data))
    /\ pc' = "merge_sg"
    /\ UNCHANGED <<mainLocals, vpcs_data, sg_data, ec2_data, output_file, loaded,
                   diag, exit_code, exc>>

\* cf_template["Resources"].update(convert_security_groups_to_cf(sg_data))
MergeSg ==
    /\ pc = "merge_sg"
    /\ cf_template' = DictUpdate(cf_template, convert_security_groups_to_cf(sg_data))
    /\ pc' = "merge_ec2"
    /\ UNCHANGED <<mainLocals, vpcs_data, sg_data, ec2_data, output_file, loaded,
                   diag, exit_code, exc>>

\* cf_template["Resources"].update(convert_ec2_to_cf(ec2_data))
MergeEc2 ==
    /\ pc = "merge_ec2"
    /\ cf_template' = DictUpdate(cf_template, convert_ec2_to_cf(ec2_data))
    /\ pc' = "write"
    /\ UNCHANGED <<mainLocals, vpcs_data, sg_data, ec2_data, output_file, loaded,
                   diag, exit_code, exc>>

TemplateDocument(res) ==
    [AWSTemplateFormatVersion |-> "2010-09-09",
     Description |-> "Imported AWS Infrastructure",
     Resources |-> res]

\* json.dump(cf_template, f, indent=2), the two summary lines, and the end of
\* the script: exit status 0.
MainWrite ==
    /\ pc = "write"
    /\ output_file' = Append(output_file, TemplateDocument(cf_template))
    /\ pc' = "exit"
    /\ exit_code' = 0
    /\ UNCHANGED <<mainLocals, vpcs_data, sg_data, ec2_data, cf_template, loaded,
                   diag, exc>>

Next ==
    \/ MainCheckArgs
    \/ MainCheckDir
    \/ LoadVpcs
    \/ LoadSg
    \/ LoadEc2
    \/ MergeVpc
    \/ MergeSg
    \/ MergeEc2
    \/ MainWrite

Init == InitMain

Spec == Init /\ [][Next]_vars

-----------------------------------------------------------------------------
(* Properties. *)

\* s with every hyphen removed, stated by recursion on s.
RECURSIVE WithoutHyphens(_)
WithoutHyphens(s) ==
    IF s = <<>> THEN <<>>
    ELSE IF Head(s) = "-" THEN WithoutHyphens(Tail(s))
    ELSE <<Head(s)>> \o WithoutHyphens(Tail(s))

IsPrefixOf(p, s) == Len(p) <= Len(s) /\ SubSeq(s, 1, Len(p)) = p

NamedDefault(sg) == "GroupName" \in DOMAIN sg /\ sg.GroupName = S_default

KeepGroup(sg) == ~NamedDefault(sg)

\* The security groups the loop has gone through so far.
GroupsDone ==
    IF "SecurityGroups" \in DOMAIN sg_data
    THEN SubSeq(sg_data.SecurityGroups, 1, i) ELSE <<>>

\* C1: a security-group record named exactly "default" never contributes an
\* entry: at every point of the loop the result is what the converter makes
\* of the records seen so far with the default-named ones taken out, and
\* every entry is the entry of a record seen so far that is not named
\* "default".
C1_DefaultNeverContributes ==
    pc \in {"sg_loop", "return"} =>
        /\ resources = SgLoopFrom(EmptyDict, 0, SelectSeq(GroupsDone, KeepGroup))
        /\ \A n \in DOMAIN resources :
              \E m \in DOMAIN GroupsDone :
                  /\ ~NamedDefault(GroupsDone[m])
                  /\ resources[n].key
                        = S_SecurityGroup \o WithoutHyphens(SgIdOf(GroupsDone[m]))
                  /\ resources[n].val = SgEntry(GroupsDone[m], SgIdOf(GroupsDone[m]))

\* A default-named group with rules and an identifier, followed by a kept
\* group with the same identifier: one entry results.
C1_Witness ==
    /\ pc = "return"
    /\ "SecurityGroups" \in DOMAIN sg_data
    /\ Len(sg_data.SecurityGroups) = 2
    /\ NamedDefault(sg_data.SecurityGroups[1])
    /\ DOMAIN sg_data.SecurityGroups[1] = {"GroupName", "GroupId", "IpPermissions"}
    /\ ~NamedDefault(sg_data.SecurityGroups[2])
    /\ SgIdOf(sg_data.SecurityGroups[1]) = SgIdOf(sg_data.SecurityGroups[2])
    /\ Len(resources) = 1

\* The rules of the one group of SpecSgRules, and the ranges of a rule.
TheGroup == sg_data.SecurityGroups[1]
TheRules == IF "IpPermissions" \in DOMAIN TheGroup THEN TheGroup.IpPermissions ELSE <<>>
RangesOf(rule) == IF "IpRanges" \in DOMAIN rule THEN rule.IpRanges ELSE <<>>

\* The number of address ranges of the first n rules.
RECURSIVE RangesBefore(_, _)
RangesBefore(rules, n) ==
    IF n = 0 THEN 0 ELSE RangesBefore(rules, n - 1) + Len(RangesOf(rules[n]))

TheIngress ==
    DictLookup(resources, S_SecurityGroup \o WithoutHyphens(SgIdOf(TheGroup)))
        .Properties.SecurityGroupIngress

\* C2: the ingress list of a kept group has exactly one entry per (rule,
\* address range) pair, in rule order then range order, carrying the rule's
\* protocol and ports (defaults tcp/80/80) and the range's CidrIp (default
\* 0.0.0.0/0); its length is the sum of the rules' range counts, so a rule
\* without ranges yields no entry.
C2_OneEntryPerRuleAndRange ==
    pc = "return" =>
        /\ Len(resources) = 1
        /\ Len(TheIngress) = RangesBefore(TheRules, Len(TheRules))
        /\ \A r \in DOMAIN TheRules : \A k \in DOMAIN RangesOf(TheRules[r]) :
              TheIngress[RangesBefore(TheRules, r - 1) + k] =
                [IpProtocol |-> IF "IpProtocol" \in DOMAIN TheRules[r]
                                THEN TheRules[r].IpProtocol ELSE "tcp",
                 FromPort |-> IF "FromPort" \in DOMAIN TheRules[r]
                              THEN TheRules[r].FromPort ELSE 80,
                 ToPort |-> IF "ToPort" \in DOMAIN TheRules[r]
                            THEN TheRules[r].ToPort ELSE 80,
                 CidrIp |-> IF "CidrIp" \in DOMAIN RangesOf(TheRules[r])[k]
                            THEN RangesOf(TheRules[r])[k].CidrIp ELSE "0.0.0.0/0"]

\* A tcp 22-22 rule with two ranges, then a rule with an empty range list:
\* two entries, alike but for CidrIp.
C2_Witness ==
    /\ pc = "return"
    /\ Len(TheRules) = 2
    /\ "IpProtocol" \in DOMAIN TheRules[1]
    /\ Len(RangesOf(TheRules[1])) = 2
    /\ "IpRanges" \in DOMAIN TheRules[2] /\ TheRules[2].IpRanges = <<>>
    /\ Len(TheIngress) = 2
    /\ TheIngress[1].CidrIp # TheIngress[2].CidrIp
    /\ [TheIngress[1] EXCEPT !.CidrIp = ""] = [TheIngress[2] EXCEPT !.CidrIp = ""]

\* Every record under 'Vpcs' has a VpcId.
WellFormedVpcs ==
    /\ "Vpcs" \in DOMAIN vpcs_data
    /\ \A n \in DOMAIN vpcs_data.Vpcs : "VpcId" \in DOMAIN vpcs_data.Vpcs[n]

StrippedVpcIds == {WithoutHyphens(vpcs_data.Vpcs[n].VpcId) : n \in DOMAIN vpcs_data.Vpcs}

\* C3 as stated: for well-formed network records the number of entries
\* equals the number of records, and each key is "VPC" followed by the
\* record's VpcId without hyphens.
C3_CountEqualsRecords ==
    (pc = "return" /\ WellFormedVpcs) =>
        /\ Len(resources) = Len(vpcs_data.Vpcs)
        /\ DictKeys(resources) = {S_VPC \o v : v \in StrippedVpcIds}

\* C3 as amended: for well-formed network records the number of entries
\* equals the number of distinct hyphen-stripped VpcIds, hence the number of
\* records when those are pairwise distinct, and the keys are "VPC" followed
\* by the records' VpcIds without hyphens.
C3_CountEqualsDistinctIds ==
    (pc = "return" /\ WellFormedVpcs) =>
        /\ Len(resources) = Cardinality(StrippedVpcIds)
        /\ Cardinality(StrippedVpcIds) = Len(vpcs_data.Vpcs)
              => Len(resources) = Len(vpcs_data.Vpcs)
        /\ Cardinality(DictKeys(resources)) = Len(resources)
        /\ DictKeys(resources) = {S_VPC \o v : v \in StrippedVpcIds}

\* Two records whose VpcIds differ after stripping, one holding a hyphen.
C3_Witness ==
    /\ pc = "return"
    /\ WellFormedVpcs
    /\ Len(vpcs_data.Vpcs) = 2
    /\ \E n \in 1..2 : \E k \in DOMAIN vpcs_data.Vpcs[n].VpcId :
          vpcs_data.Vpcs[n].VpcId[k] = "-"
    /\ Len(resources) = 2

\* C7: the record at index n (from 0) without a VpcId is keyed "VPC" + n, a
\* record with a VpcId "VPC" + the VpcId without hyphens.
C7_FallbackIsVpcIndex ==
    (pc = "return" /\ "Vpcs" \in DOMAIN vpcs_data) =>
        \A n \in DOMAIN vpcs_data.Vpcs :
            DictHas(resources,
                    IF "VpcId" \in DOMAIN vpcs_data.Vpcs[n]
                    THEN S_VPC \o WithoutHyphens(vpcs_data.Vpcs[n].VpcId)
                    ELSE S_VPC \o IntToStr(n - 1))

\* The identifier derived from the n-th record (from 1) of Vpcs.
DerivedVpcName(n) ==
    S_VPC \o WithoutHyphens(VpcIdOf(vpcs_data.Vpcs[n], n - 1))

\* The last record deriving the same identifier as the n-th.
LastWithNameOf(n) ==
    CHOOSE m \in DOMAIN vpcs_data.Vpcs :
        /\ DerivedVpcName(m) = DerivedVpcName(n)
        /\ \A q \in DOMAIN vpcs_data.Vpcs :
              DerivedVpcName(q) = DerivedVpcName(n) => q <= m

\* C9: no deduplication in convert_vpc_to_cf: records deriving the same
\* identifier leave a single entry, that of the record latest in the list; no
\* error is raised and the entry count is then below the record count.
C9_LaterRecordWins ==
    (pc = "return" /\ "Vpcs" \in DOMAIN vpcs_data) =>
        /\ exc = "none"
        /\ Cardinality(DictKeys(resources)) = Len(resources)
        /\ \A n \in DOMAIN vpcs_data.Vpcs :
              /\ DictHas(resources, DerivedVpcName(n))
              /\ DictLookup(resources, DerivedVpcName(n)) =
                    VpcEntry(vpcs_data.Vpcs[LastWithNameOf(n)],
                             VpcIdOf(vpcs_data.Vpcs[LastWithNameOf(n)],
                                     LastWithNameOf(n) - 1))
        /\ (\E m, n \in DOMAIN vpcs_data.Vpcs : m < n /\ DerivedVpcName(m) = DerivedVpcName(n))
              => Len(resources) < Len(vpcs_data.Vpcs)

\* Two records whose VpcIds differ only in hyphens, the first with a
\* CidrBlock and the second without: one entry, with the default block.
C9_Witness ==
    /\ pc = "return"
    /\ WellFormedVpcs
    /\ Len(vpcs_data.Vpcs) = 2
    /\ vpcs_data.Vpcs[1].VpcId # vpcs_data.Vpcs[2].VpcId
    /\ "CidrBlock" \in DOMAIN vpcs_data.Vpcs[1]
    /\ "CidrBlock" \notin DOMAIN vpcs_data.Vpcs[2]
    /\ Len(resources) = 1
    /\ resources[1].val.Properties.CidrBlock = "10.0.0.0/16"
    /\ resources[1].val.Properties.Tags[1].Value = S_Imported \o vpcs_data.Vpcs[2].VpcId

\* Every instance record of the export, reservation by reservation.
RECURSIVE Flattened(_)
Flattened(reservations) ==
    IF reservations = <<>> THEN <<>>
    ELSE (IF "Instances" \in DOMAIN Head(reservations)
          THEN Head(reservations).Instances ELSE <<>>)
         \o Flattened(Tail(reservations))

AllInstances == Flattened(ec2_data.Reservations)

NativeId(instance) ==
    IF "InstanceId" \in DOMAIN instance THEN instance.InstanceId ELSE <<>>

DistinctInstanceIds ==
    \A m, n \in DOMAIN AllInstances :
        m # n => WithoutHyphens(NativeId(AllInstances[m]))
                    # WithoutHyphens(NativeId(AllInstances[n]))

\* C8: for a compute export whose instance identifiers are distinct after
\* hyphen removal, the result has one entry per instance record over all
\* reservations, keyed "EC2Instance" + the identifier without hyphens and
\* carrying the single tag Name = "Imported-" + the identifier.
C8_FlattenedInstances ==
    (pc = "return" /\ "Reservations" \in DOMAIN ec2_data /\ DistinctInstanceIds) =>
        /\ Len(resources) = Len(AllInstances)
        /\ \A n \in DOMAIN AllInstances :
              /\ resources[n].key
                    = S_EC2Instance \o WithoutHyphens(NativeId(AllInstances[n]))
              /\ resources[n].val.Type = "AWS::EC2::Instance"
              /\ resources[n].val.Properties.Tags
                    = <<[Key |-> "Name",
                         Value |-> S_Imported \o NativeId(AllInstances[n])]>>

\* A reservation with two instances, then one without an Instances list: two
\* entries.
C8_Witness ==
    /\ pc = "return"
    /\ "Reservations" \in DOMAIN ec2_data
    /\ Len(ec2_data.Reservations) = 2
    /\ "Instances" \in DOMAIN ec2_data.Reservations[1]
    /\ Len(ec2_data.Reservations[1].Instances) = 2
    /\ "Instances" \notin DOMAIN ec2_data.Reservations[2]
    /\ DistinctInstanceIds
    /\ Len(resources) = 2
    /\ resources[1].val.Properties.Tags # resources[2].val.Properties.Tags

\* What the loader is specified to return for a file, and to print.
SpecifiedLoad(file) ==
    CASE file.kind = "absent" -> [value |-> <<>>, printed |-> "Warning"]
      [] file.kind \in {"undecodable", "malformed"} ->
            [value |-> <<>>, printed |-> "Error"]
      [] file.kind = "json" -> [value |-> file.value, printed |-> "none"]

\* C4: load_json_file never raises: an absent file gives the empty record
\* set and a warning, content that cannot be parsed the empty record set and
\* an error diagnostic, anything else the parsed content, and the run
\* continues.
C4_LoadNeverRaises ==
    \A n \in DOMAIN loaded :
        LET r == load_json_file(export_dir, files[loaded[n]])
        IN  /\ ~r.raised
            /\ r.value = SpecifiedLoad(files[loaded[n]]).value
            /\ r.printed = SpecifiedLoad(files[loaded[n]]).printed
            /\ ~(pc = "exit" /\ exc \notin {"none", "SystemExit"})

\* What a category contributes: nothing when its file is absent or cannot be
\* parsed, its converted records otherwise.
Loadable(file) == IF file.kind = "json" THEN file.value ELSE <<>>

ExpectedResources ==
    DictUpdate(DictUpdate(convert_vpc_to_cf(Loadable(files.vpcs)),
                          convert_security_groups_to_cf(Loadable(files.sg))),
               convert_ec2_to_cf(Loadable(files.ec2)))

\* C5: with one argument naming an existing directory the run ends with
\* exit code 0 whatever the three files are, having written the entries of
\* the categories that could be loaded; with all three absent, an empty
\* Resources mapping.
C5_AlwaysCompletesWithZero ==
    (pc = "exit" /\ argv_len = 2 /\ export_dir = "dir") =>
        /\ exit_code = 0
        /\ Len(output_file) = 1
        /\ output_file[1].Resources = ExpectedResources
        /\ files = NoFiles => output_file[1].Resources = EmptyDict

FatalInvocation == argv_len # 2 \/ export_dir = "missing"

\* C6: the template is written once per successful run, after the three
\* record sets were loaded, converted and merged; on a fatal invocation error
\* main ends at once with a non-zero status, having loaded no file and
\* written nothing.
C6_WrittenOnceAtTheEnd ==
    /\ Len(output_file) <= 1
    /\ (pc = "exit" /\ exit_code = 0) <=> Len(output_file) = 1
    /\ Len(output_file) = 1 =>
          /\ loaded = <<"vpcs", "sg", "ec2">>
          /\ output_file[1].Resources =
                DictUpdate(DictUpdate(convert_vpc_to_cf(vpcs_data),
                                      convert_security_groups_to_cf(sg_data)),
                           convert_ec2_to_cf(ec2_data))
    /\ FatalInvocation =>
          /\ pc \in {"main", "check_dir", "exit"}
          /\ loaded = <<>>
          /\ output_file = <<>>
          /\ pc = "exit" => exit_code # 0

\* A run that loaded three files with records in two of them and wrote the
\* template.
C6_Witness ==
    /\ pc = "exit"
    /\ exit_code = 0
    /\ loaded = <<"vpcs", "sg", "ec2">>
    /\ Len(output_file) = 1
    /\ Len(output_file[1].Resources) = 2

Prefixes == {S_VPC, S_SecurityGroup, S_EC2Instance}

\* C10: keys of different categories never collide: every key starts with
\* its category's prefix, no prefix is a prefix of another, and so the merge
\* loses nothing: the Resources count is the sum of the three results' sizes.
C10_NoCollisionAcrossCategories ==
    /\ \A p, q \in Prefixes : p # q => ~IsPrefixOf(p, q)
    /\ pc \in {"merge_vpc", "merge_sg", "merge_ec2", "write"} \/ (pc = "exit" /\ exit_code = 0) =>
          LET v == convert_vpc_to_cf(vpcs_data)
              g == convert_security_groups_to_cf(sg_data)
              e == convert_ec2_to_cf(ec2_data)
          IN  /\ \A k \in DictKeys(v) : IsPrefixOf(S_VPC, k)
              /\ \A k \in DictKeys(g) : IsPrefixOf(S_SecurityGroup, k)
              /\ \A k \in DictKeys(e) : IsPrefixOf(S_EC2Instance, k)
              /\ DictKeys(v) \cap DictKeys(g) = {}
              /\ DictKeys(v) \cap DictKeys(e) = {}
              /\ DictKeys(g) \cap DictKeys(e) = {}
              /\ pc = "merge_sg" => Len(cf_template) = Len(v)
              /\ pc = "merge_ec2" => Len(cf_template) = Len(v) + Len(g)
              /\ pc \in {"write", "exit"} => Len(cf_template) = Len(v) + Len(g) + Len(e)
              /\ pc = "exit" => Len(output_file[1].Resources) = Len(v) + Len(g) + Len(e)

\* A network and a security group with the same native identifier: both are
\* in the written template.
C10_Witness ==
    /\ pc = "exit"
    /\ exit_code = 0
    /\ "Vpcs" \in DOMAIN vpcs_data /\ Len(vpcs_data.Vpcs) = 1
    /\ "SecurityGroups" \in DOMAIN sg_data /\ Len(sg_data.SecurityGroups) = 1
    /\ "VpcId" \in DOMAIN vpcs_data.Vpcs[1]
    /\ "GroupId" \in DOMAIN sg_data.SecurityGroups[1]
    /\ vpcs_data.Vpcs[1].VpcId = sg_data.SecurityGroups[1].GroupId
    /\ Len(output_file[1].Resources) = 2

====
